---- MODULE Spec2Model ----
(***************************************************************************)
(* Model of the per-tenant serialization queue of order-api               *)
(* (src/services/queue.js).                                                *)
(*                                                                         *)
(* JavaScript runs each synchronous stretch of code to completion, so the  *)
(* atomic steps of the queue are:                                          *)
(*   Enqueue(k)       one call of enqueue(tenantId, operation), including  *)
(*                    the synchronous part of processQueue it may call     *)
(*                    (up to the first `await operation()`);               *)
(*   OpFinish(e, o)   the promise returned by an operation settles;        *)
(*   WorkerResume(e)  the continuation of `await operation()` runs:        *)
(*                    resolve/reject, then the rest of the while loop up   *)
(*                    to the next await, or the clean-up after the loop.   *)
(* An entry { operation, resolve, reject } is identified by the number of  *)
(* the enqueue call that created it (1, 2, 3, ... in call order).          *)
(***************************************************************************)
EXTENDS Integers, Sequences, FiniteSets, TLC

\* ---------------------------------------------------------------- bounds
MaxOps == 3
NumKeys == 2
\* enqueue calls in the behaviours checked for liveness
MaxLiveOps == 2
\* enqueue calls in the behaviours where the first operation never completes
MaxStuckOps == 3
\* PATCH /counter/:id requests in the behaviours with direct updates
MaxPatches == 1

Keys == 1..NumKeys
Ids == 1..MaxOps
NoKey == 0
\* a missing tenantId: null and undefined are values a Map accepts as keys
NullKey == -1
UndefinedKey == -2
MissingKeys == {NullKey, UndefinedKey}

\* What an operation can produce: a returned value or a thrown error.
ReturnValues == {"null", "undefined", "result"}
Errors == {"Error"}
Outcomes == {<<"return", v>> : v \in ReturnValues} \cup {<<"throw", x>> : x \in Errors}
\* one outcome of each kind, where the value delivered plays no part
TwoOutcomes == {<<"return", "result">>, <<"throw", "Error">>}
NoOutcome == <<"none", "none">>
Pending == <<"pending", "none">>

VARIABLES
  queues,        \* this.queues: tenantId -> array of entries (DOMAIN = keys in the Map)
  processing,    \* this.processing: Set of tenantIds
  awaiting,      \* entries whose worker is suspended at `await operation()`
  key,           \* key[e]: the tenantId entry e was enqueued with (NoKey: not yet enqueued)
  opState,       \* the operation of e: "new", "queued", "running", "finished"
  opOutcome,     \* what the operation of e produced
  promise,       \* state of the promise returned by enqueue for e
  resolveCalls,  \* number of calls of e's resolve
  rejectCalls,   \* number of calls of e's reject
  startLog,      \* per key, the entries in the order their operations were invoked
  nextId,        \* number of the next enqueue call
  gapEnq,        \* entries enqueued while the key's worker had a finished operation and an empty backlog
  reused,        \* entries enqueued on a key that had drained and left the Map before
  app,           \* the counter route and the reset job (record, see AppIdle)
  fmt            \* one call of formatOrderNumber (record, see FmtIdle)

vars == <<queues, processing, awaiting, key, opState, opOutcome, promise,
          resolveCalls, rejectCalls, startLog, nextId, gapEnq, reused, app, fmt>>

\* The part of the state the queue's methods read and write, as one record.
State ==
  [queues |-> queues, processing |-> processing, awaiting |-> awaiting,
   opState |-> opState, promise |-> promise, resolveCalls |-> resolveCalls,
   rejectCalls |-> rejectCalls, startLog |-> startLog]

\* ------------------------------------------------------------- helpers
\* this.queues.get(tenantId) / the worker's local `queue` (same array object)
queueOf(s, k) == IF k \in DOMAIN s.queues THEN s.queues[k] ELSE <<>>

\* this.queues.set(tenantId, q)
queuesSet(s, k, q) ==
  [s EXCEPT !.queues = [x \in (DOMAIN s.queues) \cup {k} |-> IF x = k THEN q ELSE s.queues[x]]]

\* this.queues.delete(tenantId)
queuesDelete(s, k) ==
  [s EXCEPT !.queues = [x \in (DOMAIN s.queues) \ {k} |-> s.queues[x]]]

\* Variants of processingHas: the flag is never seen / one flag for all tenants.
processingHasNever(s, k) == FALSE
processingHasAny(s, k) == s.processing # {}

\* this.processing.has(tenantId)
processingHas(s, k) == k \in s.processing

\* Variant of shift: queue.pop(), the newest entry first.
pop(q) == [entry |-> q[Len(q)], rest |-> SubSeq(q, 1, Len(q) - 1)]

\* queue.shift(): the entry taken and the remaining array
shift(q) == [entry |-> Head(q), rest |-> Tail(q)]

\* Variant of settlement: an absent result is coerced to null.
settlementCoerced(o) ==
  IF o[1] = "return"
    THEN <<"fulfilled", IF o[2] = "undefined" THEN "null" ELSE o[2]>>
    ELSE <<"rejected", o[2]>>

\* The state a promise takes when it is settled with outcome o.
settlement(o) ==
  IF o[1] = "return" THEN <<"fulfilled", o[2]>> ELSE <<"rejected", o[2]>>

\* Variant of settle: resolve is also called after the catch branch.
settleBoth(s, e, o) ==
  LET p == IF s.promise[e] = Pending THEN settlement(o) ELSE s.promise[e]
  IN IF o[1] = "return"
       THEN [s EXCEPT !.promise[e] = p, !.resolveCalls[e] = @ + 1]
       ELSE [s EXCEPT !.promise[e] = p, !.rejectCalls[e] = @ + 1,
                      !.resolveCalls[e] = @ + 1]

\* resolve(result) in the try branch, reject(error) in the catch branch;
\* a promise settles with the first resolve/reject call only.
settle(s, e, o) ==
  LET p == IF s.promise[e] = Pending THEN settlement(o) ELSE s.promise[e]
  IN IF o[1] = "return"
       THEN [s EXCEPT !.promise[e] = p, !.resolveCalls[e] = @ + 1]
       ELSE [s EXCEPT !.promise[e] = p, !.rejectCalls[e] = @ + 1]

\* Variants of cleanup: the processing flag is left set / the Map entry is kept.
cleanupFlag(s, k) ==
  IF Len(queueOf(s, k)) = 0 THEN queuesDelete(s, k) ELSE s
cleanupKeep(s, k) == [s EXCEPT !.processing = @ \ {k}]

\* lines 56-60: remove processing flag and empty queue
cleanup(s, k) ==
  LET s1 == [s EXCEPT !.processing = @ \ {k}]
  IN IF Len(queueOf(s1, k)) = 0 THEN queuesDelete(s1, k) ELSE s1

\* Variant of whileLoop: the Map entry is deleted as soon as the array is empty.
whileLoopEager(s, k) ==
  IF Len(queueOf(s, k)) > 0
    THEN LET sh == shift(queueOf(s, k))
             s1 == IF Len(sh.rest) = 0 THEN queuesDelete(s, k)
                                       ELSE queuesSet(s, k, sh.rest)
         IN [s1 EXCEPT !.awaiting = @ \cup {sh.entry},
                       !.opState[sh.entry] = "running",
                       !.startLog[k] = Append(@, sh.entry)]
    ELSE cleanup(s, k)

\* lines 45-49: the head of the while loop, up to the await (or the exit)
whileLoop(s, k) ==
  IF Len(queueOf(s, k)) > 0
    THEN LET sh == shift(queueOf(s, k))
             s1 == queuesSet(s, k, sh.rest)
         IN [s1 EXCEPT !.awaiting = @ \cup {sh.entry},
                       !.opState[sh.entry] = "running",
                       !.startLog[k] = Append(@, sh.entry)]
    ELSE cleanup(s, k)

\* Variant of processQueue: the worker yields before it takes the first entry.
processQueueDeferred(s, k) == [s EXCEPT !.processing = @ \cup {k}]

\* Variant of processQueue: the processing flag is not set.
processQueueNoFlag(s, k) == whileLoop(s, k)

\* lines 41-49: processQueue from its call to its first await
processQueue(s, k) ==
  whileLoop([s EXCEPT !.processing = @ \cup {k}], k)

\* Variant of afterAwait: no try/catch, a throwing operation ends the worker.
afterAwaitNoCatch(s, e, k, o) ==
  IF o[1] = "throw"
    THEN [s EXCEPT !.awaiting = @ \ {e}]
    ELSE whileLoop([settle(s, e, o) EXCEPT !.awaiting = @ \ {e}], k)

\* Variant of afterAwait: `if` instead of `while`, the worker leaves after one entry.
afterAwaitNoLoop(s, e, k, o) ==
  cleanup([settle(s, e, o) EXCEPT !.awaiting = @ \ {e}], k)

\* Variant of afterAwait: a failure aborts the entries waiting behind it.
afterAwaitAbort(s, e, k, o) ==
  LET s1 == [settle(s, e, o) EXCEPT !.awaiting = @ \ {e}]
  IN whileLoop(IF o[1] = "throw" THEN queuesSet(s1, k, <<>>) ELSE s1, k)

\* Variant of afterAwait: the worker yields between the settlement of the last
\* entry and the clean-up.
afterAwaitYield(s, e, k, o) ==
  LET s1 == [settle(s, e, o) EXCEPT !.awaiting = @ \ {e}]
  IN IF Len(queueOf(s1, k)) > 0 THEN whileLoop(s1, k) ELSE s1

\* lines 49-54 and on: the worker resumes after `await operation()`
afterAwait(s, e, k, o) ==
  whileLoop([settle(s, e, o) EXCEPT !.awaiting = @ \ {e}], k)

\* Variant of enqueue: a missing tenantId is refused, nothing is queued.
enqueueValidating(s, k, e) ==
  IF k \in MissingKeys
    THEN [s EXCEPT !.promise[e] = <<"rejected", "Error">>]
    ELSE LET s1 == IF k \notin DOMAIN s.queues THEN queuesSet(s, k, <<>>) ELSE s
             s2 == queuesSet(s1, k, Append(queueOf(s1, k), e))
             s3 == [s2 EXCEPT !.opState[e] = "queued"]
         IN IF ~processingHas(s3, k) THEN processQueue(s3, k) ELSE s3

\* lines 20-35: enqueue(tenantId, operation), e is the new entry
enqueue(s, k, e) ==
  LET s1 == IF k \notin DOMAIN s.queues THEN queuesSet(s, k, <<>>) ELSE s
      s2 == queuesSet(s1, k, Append(queueOf(s1, k), e))
      s3 == [s2 EXCEPT !.opState[e] = "queued"]
  IN IF ~processingHas(s3, k) THEN processQueue(s3, k) ELSE s3

\* ------------------------------------------------- formatOrderNumber
\* Strings are sequences of one-character strings.
\* A JavaScript value: a finite number num/den, NaN, Infinity, a string,
\* null or undefined.
MaxFmtSmall == 12
DigitChars == <<"0", "1", "2", "3", "4", "5", "6", "7", "8", "9">>
OrdPrefix == <<"O", "R", "D", "-">>
FmtMessage == "Input must be a positive integer"

Num(n, d) == [type |-> "number", kind |-> "finite", num |-> n, den |-> d]
FmtNumbers ==
  {Num(n, 1) : n \in (-2..MaxFmtSmall) \cup
                     {99999, 100000, 123456, 999999, 1000000, 1234567, 2147483647}}
    \cup {Num(12345, 100), Num(1, 2), Num(10, 2), Num(-7, 2)}
FmtOthers ==
  {[type |-> "number", kind |-> "NaN"], [type |-> "number", kind |-> "Infinity"],
   [type |-> "string", str |-> <<"1", "2", "3">>], [type |-> "string", str |-> <<>>],
   [type |-> "null"], [type |-> "undefined"]}
FmtInputs == FmtNumbers \cup FmtOthers
\* new Date(): getFullYear() and getMonth() (0..11)
FmtDates == {[year |-> y, monthIndex |-> m] : y \in {1999, 2000, 2024, 2109}, m \in {0, 8, 9, 11}}

\* Number.isInteger(x)
isInteger(x) ==
  x.type = "number" /\ x.kind = "finite" /\ x.num % x.den = 0

\* the value of an integral number
intValue(x) == x.num \div x.den

RECURSIVE toString(_)
\* n.toString() for an integer n >= 0
toString(n) ==
  IF n < 10 THEN <<DigitChars[n + 1]>>
            ELSE Append(toString(n \div 10), DigitChars[(n % 10) + 1])

\* str.slice(-n)
sliceLast(str, n) ==
  IF Len(str) <= n THEN str ELSE SubSeq(str, Len(str) - n + 1, Len(str))

\* Variant of padStart: the result is cut to the target length.
padStartCut(str, len, ch) ==
  sliceLast([i \in 1..len |-> ch] \o str, len)

\* str.padStart(len, ch)
padStart(str, len, ch) ==
  IF Len(str) >= len THEN str ELSE [i \in 1..(len - Len(str)) |-> ch] \o str

\* Variant of the input check: `number < 0`.
invalidInputLax(x) == ~isInteger(x) \/ intValue(x) < 0

\* line 14: !Number.isInteger(number) || number <= 0
invalidInput(x) == ~isInteger(x) \/ intValue(x) <= 0

\* src/utils/index.js 12-28
formatOrderNumber(x, now) ==
  IF invalidInput(x)
    THEN <<"throw", FmtMessage>>
    ELSE LET year == sliceLast(toString(now.year), 2)
             month == padStart(toString(now.monthIndex + 1), 2, "0")
             paddedNumber == padStart(toString(intValue(x)), 6, "0")
         IN <<"return", OrdPrefix \o year \o month \o <<"-">> \o paddedNumber>>

\* ------------------------------------ GET /counter and the reset job
\* PostgreSQL integer maximum checked by the route
MaxCounter == 2147483647
\* the date at which the route formats its order numbers
AppNow == [year |-> 2024, monthIndex |-> 11]

\* A row of the counters table for a tenant (present: not deleted).  `form`
\* says what the value column holds: an integer (in `value`), null, undefined,
\* a number with a fraction, or something Number() turns into NaN.
Row(v) == [present |-> TRUE, value |-> v, form |-> "integer"]
NoRow == [present |-> FALSE, value |-> 0, form |-> "integer"]
BadRow(f) == [present |-> TRUE, value |-> 0, form |-> f]
BadForms == {"null", "undefined", "fraction", "NaN"}
InitRows == {Row(1), Row(MaxCounter), NoRow}
\* The rows the route tells apart.
RouteRows ==
  {Row(v) : v \in {-1, 0, 1, MaxCounter - 1, MaxCounter}}
    \cup {BadRow(f) : f \in BadForms} \cup {NoRow}
\* The tables at start: the first tenant has any of the rows above and the
\* others an ordinary row, or the table is empty.
InitTables ==
  {[k \in Keys |-> IF k = 1 THEN r ELSE Row(1)] : r \in InitRows}
    \cup {[k \in Keys |-> NoRow]}

\* Orders of the rows a select can return: the sequences without repetition
\* over a set of tenants.
RECURSIVE Perms(_)
Perms(S) ==
  IF S = {} THEN {<<>>}
  ELSE UNION {{<<k>> \o p : p \in Perms(S \ {k})} : k \in S}

\* The route and the job before any request; no call of formatOrderNumber.
AppIdle == [jobPc |-> "idle"]
FmtIdle == [pc |-> "idle"]

\* The application state at start, over the counter rows `rows`.
AppStart(rows) ==
  [jobPc |-> "idle",            \* resetCounters: idle, ids, waiting, done
   idsCalls |-> 0,              \* calls of getAllTenantIds
   tenantIds |-> <<>>,          \* const tenantIds
   jobEntries |-> <<>>,         \* resetPromises, as the entries they belong to
   resetExecuted |-> FALSE,     \* let resetExecuted
   resetCount |-> 0,            \* let resetCount
   resetCalls |-> 0,            \* calls of resetAllCounters
   resetRunning |-> FALSE,      \* resetAllCounters called and not yet returned
   okLogs |-> 0,                \* 'Successfully reset' messages
   errLogs |-> 0,               \* 'Error resetting counters' messages
   loggedCount |-> 0,           \* the count in the success message
   idsFailed |-> FALSE,         \* getAllTenantIds threw
   jobResult |-> "pending",     \* the promise returned by resetCounters
   kind |-> [e \in Ids |-> "none"],   \* the closure of entry e: inc, reset
   opPc |-> [e \in Ids |-> "-"],      \* where the operation of e is suspended
   readVal |-> [e \in Ids |-> 0],     \* currentValue of an increment
   row |-> rows,                      \* the counters table
   row0 |-> rows,                     \* the counters table at start
   pendAtJob |-> {},            \* increments not finished when the job enqueued
   resetOverlap |-> {},         \* increments not finished when resetAllCounters was called
   startedInReset |-> {}]       \* increments of known tenants invoked while it ran

\* The queue, the entries and the application as one value.
World ==
  [s |-> State, out |-> opOutcome, key |-> key, nextId |-> nextId, a |-> app]

\* an operation returns v / throws x: the promise of the async function settles
opReturn(w, e, v) ==
  [w EXCEPT !.s.opState[e] = "finished", !.out[e] = <<"return", v>>, !.a.opPc[e] = "done"]
opThrow(w, e, x) ==
  [w EXCEPT !.s.opState[e] = "finished", !.out[e] = <<"throw", x>>, !.a.opPc[e] = "done"]

\* increments invoked and not finished
UnfinishedIncs(w) ==
  {e \in Ids : w.a.kind[e] = "inc" /\ w.s.opState[e] \in {"queued", "running"}}

\* Variant of resetOpStart: no one-shot flag, every entry runs the reset.
resetOpStartNoFlag(w, e) ==
  [w EXCEPT !.a.resetExecuted = TRUE,
            !.a.resetCalls = @ + 1,
            !.a.resetRunning = TRUE,
            !.a.resetOverlap = @ \cup UnfinishedIncs(w),
            !.a.opPc[e] = "reset"]

\* jobs/index.js 327-334: the job's operation up to its await or return
resetOpStart(w, e) ==
  IF ~w.a.resetExecuted
    THEN [w EXCEPT !.a.resetExecuted = TRUE,
                   !.a.resetCalls = @ + 1,
                   !.a.resetRunning = TRUE,
                   !.a.resetOverlap = @ \cup UnfinishedIncs(w),
                   !.a.opPc[e] = "reset"]
    ELSE opReturn(w, e, w.a.resetCount)

\* routes/counter.js 24-26: the increment up to `await getByTenantId`
incOpStart(w, e) ==
  [w EXCEPT !.a.opPc[e] = "read",
            !.a.startedInReset =
               IF w.a.resetRunning /\ (\E i \in 1..Len(w.a.tenantIds) : w.a.tenantIds[i] = w.key[e])
                 THEN @ \cup {e} ELSE @]

\* the worker invokes operation() of entry e
opStart(w, e) ==
  IF w.a.kind[e] = "reset" THEN resetOpStart(w, e) ELSE incOpStart(w, e)

\* queue.enqueue(k, operation) with an operation of the given kind
appEnqueue(w, k, kd) ==
  LET e == w.nextId
      s1 == enqueue(w.s, k, e)
      w1 == [w EXCEPT !.s = s1, !.key[e] = k, !.nextId = @ + 1, !.a.kind[e] = kd]
  IN IF e \in s1.awaiting THEN opStart(w1, e) ELSE w1

\* the worker awaiting e resumes, and invokes the next operation if there is one
appResume(w, e) ==
  LET s1 == afterAwait(w.s, e, w.key[e], w.out[e])
      started == s1.awaiting \ w.s.awaiting
      w1 == [w EXCEPT !.s = s1]
  IN IF started = {} THEN w1 ELSE opStart(w1, CHOOSE x \in started : TRUE)

RECURSIVE enqueueAllOneKey(_, _, _)
\* Variant of enqueueAll: every entry is queued under the first tenant.
enqueueAllOneKey(w, ids, i) ==
  IF i > Len(ids) THEN w
  ELSE enqueueAllOneKey([appEnqueue(w, ids[1], "reset") EXCEPT !.a.jobEntries = Append(@, w.nextId)],
                        ids, i + 1)

\* Variant of jobCatch: no try/catch, the error leaves resetCounters.
jobNoCatch(w) ==
  [w EXCEPT !.a.jobPc = "done", !.a.jobResult = "rejected"]

\* jobs/index.js 341-343: the catch block logs the error; the job returns
jobCatch(w) ==
  [w EXCEPT !.a.jobPc = "done", !.a.errLogs = @ + 1, !.a.jobResult = "resolved"]

\* jobs/index.js 340: the success message is logged; the job returns
jobSuccess(w) ==
  [w EXCEPT !.a.jobPc = "done", !.a.okLogs = @ + 1,
            !.a.loggedCount = w.a.resetCount, !.a.jobResult = "resolved"]

RECURSIVE enqueueAll(_, _, _)
\* jobs/index.js 326-335: tenantIds.map(...) from index i on
enqueueAll(w, ids, i) ==
  IF i > Len(ids) THEN w
  ELSE enqueueAll([appEnqueue(w, ids[i], "reset") EXCEPT !.a.jobEntries = Append(@, w.nextId)],
                  ids, i + 1)

\* Variant of jobSettle: an empty list of entries is taken as a failure.
jobSettleEmptyFails(w) ==
  LET ps == {w.a.jobEntries[i] : i \in 1..Len(w.a.jobEntries)}
  IN IF w.a.jobPc # "waiting" THEN w
     ELSE IF ps = {} \/ \E e \in ps : w.s.promise[e][1] = "rejected" THEN jobCatch(w)
     ELSE IF \A e \in ps : w.s.promise[e][1] = "fulfilled" THEN jobSuccess(w)
     ELSE w

\* Variant of jobSettle: Promise.any, the job goes on with the first entry
\* that is fulfilled.
jobSettleAny(w) ==
  LET ps == {w.a.jobEntries[i] : i \in 1..Len(w.a.jobEntries)}
  IN IF w.a.jobPc # "waiting" THEN w
     ELSE IF ps = {} \/ \E e \in ps : w.s.promise[e][1] = "fulfilled" THEN jobSuccess(w)
     ELSE IF \A e \in ps : w.s.promise[e][1] = "rejected" THEN jobCatch(w)
     ELSE w

\* jobs/index.js 338-343: `await Promise.all(resetPromises)` returns when
\* every entry is fulfilled and throws when one is rejected
jobSettle(w) ==
  LET ps == {w.a.jobEntries[i] : i \in 1..Len(w.a.jobEntries)}
  IN IF w.a.jobPc # "waiting" THEN w
     ELSE IF \E e \in ps : w.s.promise[e][1] = "rejected" THEN jobCatch(w)
     ELSE IF \A e \in ps : w.s.promise[e][1] = "fulfilled" THEN jobSuccess(w)
     ELSE w

\* the workers whose awaited operation has settled
Resumable(w) == {e \in w.s.awaiting : w.s.opState[e] = "finished"}

RECURSIVE runMicrotasks(_)
\* The promise continuations of one turn of the event loop, which run before
\* any other request, timer or database result is handled: the workers whose
\* operation has settled resume (queue.js 49-60), in the order of their
\* entries, and then resetCounters goes on if Promise.all has settled.
runMicrotasks(w) ==
  IF Resumable(w) # {}
    THEN runMicrotasks(appResume(w, CHOOSE e \in Resumable(w) : \A f \in Resumable(w) : e <= f))
    ELSE jobSettle(w)

\* Variant of validation: no null check, Number(null) is 0.
validationNoNull(r) ==
  IF ~r.present THEN "Counter not found for this tenant"
  ELSE IF r.form \in {"undefined", "fraction", "NaN"} THEN "Counter value must be an integer"
  ELSE IF r.value < 0 THEN "Counter value cannot be negative"
  ELSE IF r.value >= MaxCounter THEN "Counter has reached maximum value"
  ELSE "ok"

\* Variant of validation: a negative value is let through.
validationNoNegative(r) ==
  IF ~r.present THEN "Counter not found for this tenant"
  ELSE IF r.form \in {"null", "undefined"} THEN "Counter value is invalid"
  ELSE IF r.form \in {"fraction", "NaN"} THEN "Counter value must be an integer"
  ELSE IF r.value >= MaxCounter THEN "Counter has reached maximum value"
  ELSE "ok"

\* Variant of validation: the upper bound is tested with `>`.
validationOffByOne(r) ==
  IF ~r.present THEN "Counter not found for this tenant"
  ELSE IF r.form \in {"null", "undefined"} THEN "Counter value is invalid"
  ELSE IF r.form \in {"fraction", "NaN"} THEN "Counter value must be an integer"
  ELSE IF r.value < 0 THEN "Counter value cannot be negative"
  ELSE IF r.value > MaxCounter THEN "Counter has reached maximum value"
  ELSE "ok"

\* routes/counter.js 28-50: the checks on the row read
validation(r) ==
  IF ~r.present THEN "Counter not found for this tenant"
  ELSE IF r.form \in {"null", "undefined"} THEN "Counter value is invalid"
  ELSE IF r.form \in {"fraction", "NaN"} THEN "Counter value must be an integer"
  ELSE IF r.value < 0 THEN "Counter value cannot be negative"
  ELSE IF r.value >= MaxCounter THEN "Counter has reached maximum value"
  ELSE "ok"

\* routes/counter.js 19-21, 72-74: the request is answered with the 400 error
\* (recorded where the behaviours checked keep the responses)
badRequest(w) ==
  IF "badRequest" \in DOMAIN w.a THEN [w EXCEPT !.a.badRequest = TRUE] ELSE w

\* Variant of incWritten: the value is written from the row as it is now.
incWrittenFresh(w, e) == w.a.row[w.key[e]].value + 1

\* routes/counter.js 56: const nextOrderNumber = currentValue + 1
incWritten(w, e) == w.a.readVal[e] + 1

\* PATCH /counter/:id.  A counter id is written as the tenant its row belongs
\* to; a request body holds no field, only protected fields (id, tenant_id,
\* created_at, deleted_at), a name, or a value.
Patches == 1..MaxPatches
PatchValues == {5}
PatchBodies ==
  {[fields |-> f, value |-> 0] : f \in {"none", "protected", "name"}}
    \cup {[fields |-> "value", value |-> v] : v \in PatchValues}

\* the increments that have read their tenant's counter and not yet written it
BetweenReadAndWrite(w, k) ==
  {e \in Ids : w.a.kind[e] = "inc" /\ w.key[e] = k /\ w.a.opPc[e] \in {"exists", "write"}}

\* routes/counter.js 191-211: the handler up to `await updateById`, which
\* awaits getById (services/counter.js 138); 213-221: the error responses
patchStart(w, p, id, body) ==
  IF body.fields \in {"none", "protected"}
    THEN [w EXCEPT !.a.patchPc[p] = "done", !.a.patchRes[p] = "badRequest",
                   !.a.nextPatch = @ + 1]
    ELSE [w EXCEPT !.a.patchPc[p] = "getById", !.a.patchId[p] = id,
                   !.a.patchBody[p] = body, !.a.nextPatch = @ + 1]

\* services/counter.js 138-141, 162-164: getById returns the row or null, or
\* fails; routes/counter.js 213-221
updateByIdGot(w, p, ok) ==
  IF ~ok THEN [w EXCEPT !.a.patchPc[p] = "done", !.a.patchRes[p] = "internal"]
  ELSE IF ~w.a.row[w.a.patchId[p]].present
    THEN [w EXCEPT !.a.patchPc[p] = "done", !.a.patchRes[p] = "notFound"]
  ELSE [w EXCEPT !.a.patchPc[p] = "update"]

\* services/counter.js 149-164: the update returns the row or fails;
\* routes/counter.js 211-221
updateByIdDone(w, p, ok) ==
  LET id == w.a.patchId[p]
      body == w.a.patchBody[p]
  IN IF ~ok THEN [w EXCEPT !.a.patchPc[p] = "done", !.a.patchRes[p] = "internal"]
     ELSE IF body.fields = "value"
       THEN [w EXCEPT !.a.patchPc[p] = "done", !.a.patchRes[p] = "ok",
                      !.a.row[id] = Row(body.value),
                      !.a.patchedInside = @ \cup BetweenReadAndWrite(w, id)]
     ELSE [w EXCEPT !.a.patchPc[p] = "done", !.a.patchRes[p] = "ok"]

\* ---------------------------------------------------------------- actions
Apply(s) ==
  /\ queues' = s.queues
  /\ processing' = s.processing
  /\ awaiting' = s.awaiting
  /\ opState' = s.opState
  /\ promise' = s.promise
  /\ resolveCalls' = s.resolveCalls
  /\ rejectCalls' = s.rejectCalls
  /\ startLog' = s.startLog

\* new Queue(): both collections empty, no entry created yet
QueueInit ==
  /\ queues = << >>
  /\ processing = {}
  /\ awaiting = {}
  /\ key = [e \in Ids |-> NoKey]
  /\ opState = [e \in Ids |-> "new"]
  /\ opOutcome = [e \in Ids |-> NoOutcome]
  /\ promise = [e \in Ids |-> Pending]
  /\ resolveCalls = [e \in Ids |-> 0]
  /\ rejectCalls = [e \in Ids |-> 0]
  /\ startLog = [k \in Keys \cup MissingKeys |-> <<>>]
  /\ nextId = 1
  /\ gapEnq = {}
  /\ reused = {}

Init ==
  /\ QueueInit
  /\ app = AppIdle
  /\ fmt = FmtIdle

\* A caller calls queue.enqueue(k, operation).
Enqueue(k) ==
  /\ nextId <= MaxOps
  /\ Apply(enqueue(State, k, nextId))
  /\ key' = [key EXCEPT ![nextId] = k]
  /\ nextId' = nextId + 1
  /\ gapEnq' = IF /\ k \in DOMAIN queues
                  /\ queues[k] = <<>>
                  /\ \E a \in awaiting : key[a] = k /\ opState[a] = "finished"
                 THEN gapEnq \cup {nextId} ELSE gapEnq
  /\ reused' = IF k \notin DOMAIN queues /\ startLog[k] # <<>>
                 THEN reused \cup {nextId} ELSE reused
  /\ UNCHANGED <<opOutcome, app, fmt>>

\* The operation of entry e returns or throws: its promise settles with o.
OpFinish(e, o) ==
  /\ opState[e] = "running"
  /\ opState' = [opState EXCEPT ![e] = "finished"]
  /\ opOutcome' = [opOutcome EXCEPT ![e] = o]
  /\ UNCHANGED <<queues, processing, awaiting, key, promise, resolveCalls,
                 rejectCalls, startLog, nextId, gapEnq, reused, app, fmt>>

\* The worker awaiting e's operation is resumed with its outcome.
WorkerResume(e) ==
  /\ e \in awaiting
  /\ opState[e] = "finished"
  /\ Apply(afterAwait(State, e, key[e], opOutcome[e]))
  /\ UNCHANGED <<key, opOutcome, nextId, gapEnq, reused, app, fmt>>

Next ==
  \/ \E k \in Keys : Enqueue(k)
  \/ \E e \in Ids, o \in Outcomes : OpFinish(e, o)
  \/ \E e \in Ids : WorkerResume(e)

Spec == Init /\ [][Next]_vars

\* The same program with at most MaxLiveOps enqueue calls.
EnqueueLive(k) ==
  /\ nextId <= MaxLiveOps
  /\ Enqueue(k)

NextLive ==
  \/ \E k \in Keys : EnqueueLive(k)
  \/ \E e \in Ids, o \in Outcomes : OpFinish(e, o)
  \/ \E e \in Ids : WorkerResume(e)

\* The same program called with a tenantId or without one (null, undefined).
EnqueueAnyKey(k) == Enqueue(k)

NextAnyKey ==
  \/ \E k \in {1} \cup MissingKeys : EnqueueAnyKey(k)
  \/ \E e \in Ids, o \in Outcomes : OpFinish(e, o)
  \/ \E e \in Ids : WorkerResume(e)

AnyKeySpec == Init /\ [][NextAnyKey]_vars

\* The same program when the operation of the first entry never returns:
\* its promise stays pending, every other operation returns or throws.
EnqueueStuck(k) ==
  /\ nextId <= MaxStuckOps
  /\ Enqueue(k)

OpFinishOthers(e, o) ==
  /\ e # 1
  /\ OpFinish(e, o)

NextStuck ==
  \/ \E k \in Keys : EnqueueStuck(k)
  \/ \E e \in Ids, o \in TwoOutcomes : OpFinishOthers(e, o)
  \/ \E e \in Ids : WorkerResume(e)

StuckSpec ==
  Init /\ [][NextStuck]_vars /\ \A e \in Ids : WF_vars(WorkerResume(e))

\* The same program with operations that call queue.enqueue themselves.
\* app.parent[e]: the running operation that enqueued e (0: an outside
\* caller); app.waitsFor[a]: the entry whose promise operation a awaits
\* (0: none).
NestedStart ==
  [jobPc |-> "idle", parent |-> [e \in Ids |-> 0], waitsFor |-> [e \in Ids |-> 0]]

NestedInit ==
  /\ QueueInit
  /\ fmt = FmtIdle
  /\ app = NestedStart

\* operation a is executing: invoked, not returned, not suspended on a
\* pending promise of the queue
Executing(a) ==
  /\ opState[a] = "running"
  /\ IF app.waitsFor[a] = 0 THEN TRUE ELSE promise[app.waitsFor[a]] # Pending

\* an outside caller calls queue.enqueue(k, operation)
EnqueueOutside(k) == Enqueue(k)

\* the running operation a calls queue.enqueue(k, operation) and either
\* awaits the returned promise (wait) or goes on without it
EnqueueNested(a, k, wait) ==
  /\ nextId <= MaxOps
  /\ Executing(a)
  /\ Apply(enqueue(State, k, nextId))
  /\ key' = [key EXCEPT ![nextId] = k]
  /\ nextId' = nextId + 1
  /\ app' = [app EXCEPT !.parent[nextId] = a,
                         !.waitsFor[a] = IF wait THEN nextId ELSE 0]
  /\ UNCHANGED <<opOutcome, gapEnq, reused, fmt>>

\* operation e returns or throws; it cannot while it awaits a pending promise
OpFinishNested(e, o) ==
  /\ Executing(e)
  /\ OpFinish(e, o)

NestedNext ==
  \/ \E k \in Keys : EnqueueOutside(k)
  \/ \E a \in Ids, k \in Keys, wait \in BOOLEAN : EnqueueNested(a, k, wait)
  \/ \E e \in Ids, o \in TwoOutcomes : OpFinishNested(e, o)
  \/ \E e \in Ids : WorkerResume(e)

NestedSpec == NestedInit /\ [][NestedNext]_vars

\* One call formatOrderNumber(input) at the date `now`.
FmtInit ==
  /\ QueueInit
  /\ app = AppIdle
  /\ fmt \in {[pc |-> "called", input |-> x, now |-> d, result |-> NoOutcome] :
                x \in FmtInputs, d \in FmtDates}

FormatOrderNumber ==
  /\ fmt.pc = "called"
  /\ fmt' = [fmt EXCEPT !.pc = "done", !.result = formatOrderNumber(fmt.input, fmt.now)]
  /\ UNCHANGED <<queues, processing, awaiting, key, opState, opOutcome, promise,
                 resolveCalls, rejectCalls, startLog, nextId, gapEnq, reused, app>>

FmtNext == FormatOrderNumber

FmtSpec == FmtInit /\ [][FmtNext]_vars

\* ---------------------------------------------- the application's steps
\* A step is one turn of the event loop: a request, the timer of the job or a
\* database result is handled, and the promise continuations this sets off
\* (runMicrotasks) run before the next request, timer or result.
ApplyWorld(w) ==
  /\ Apply(w.s)
  /\ opOutcome' = w.out
  /\ key' = w.key
  /\ nextId' = w.nextId
  /\ app' = w.a
  /\ UNCHANGED <<gapEnq, reused, fmt>>

AppInit ==
  /\ QueueInit
  /\ fmt = FmtIdle
  /\ app \in {AppStart(rows) : rows \in InitTables}

\* GET /counter with req.tenant_id = k (routes/counter.js 15-24)
GetCounter(k) ==
  /\ \/ /\ k \in MissingKeys
        /\ ApplyWorld(badRequest(World))
     \/ /\ k \in Keys
        /\ nextId <= MaxOps
        /\ ApplyWorld(runMicrotasks(appEnqueue(World, k, "inc")))

\* getByTenantId of the increment e returns the row, or fails (26-50, 63)
ReadDone(e, ok) ==
  /\ app.opPc[e] = "read"
  /\ LET r == app.row[key[e]]
     IN ApplyWorld(runMicrotasks(
          IF ~ok THEN opThrow(World, e, "Failed to retrieve counter by tenantId")
          ELSE IF validation(r) # "ok" THEN opThrow(World, e, validation(r))
          ELSE [World EXCEPT !.a.readVal[e] = r.value, !.a.opPc[e] = "exists"]))

\* updateByTenantId: its own getByTenantId returns (services/counter.js 44-50)
ExistsDone(e, ok) ==
  /\ app.opPc[e] = "exists"
  /\ ApplyWorld(runMicrotasks(
       IF ~ok \/ ~app.row[key[e]].present
         THEN opThrow(World, e, "Failed to update counter by tenantId")
         ELSE [World EXCEPT !.a.opPc[e] = "write"]))

\* updateByTenantId: the update returns; then formatOrderNumber and return
\* (services/counter.js 58-70, routes/counter.js 63-68)
WriteDone(e, ok) ==
  /\ app.opPc[e] = "write"
  /\ ApplyWorld(runMicrotasks(
       IF ~ok THEN opThrow(World, e, "Failed to update counter by tenantId")
       ELSE LET v == incWritten(World, e)
                w1 == [World EXCEPT !.a.row[key[e]].value = v]
                f == formatOrderNumber(Num(v, 1), AppNow)
            IN [w1 EXCEPT !.s.opState[e] = "finished", !.out[e] = f, !.a.opPc[e] = "done"]))

\* resetAllCounters returns the number of rows set to 1, or fails
\* (services/counter.js 353-373, jobs/index.js 331-333)
ResetDone(e, ok) ==
  /\ app.opPc[e] = "reset"
  /\ ApplyWorld(runMicrotasks(
       IF ~ok THEN opThrow([World EXCEPT !.a.resetRunning = FALSE], e,
                           "Failed to reset all counters")
       ELSE LET n == Cardinality({k \in Keys : app.row[k].present})
                w1 == [World EXCEPT
                         !.a.row = [k \in Keys |-> IF app.row[k].present THEN Row(1) ELSE app.row[k]],
                         !.a.resetCount = n,
                         !.a.resetRunning = FALSE]
            IN opReturn(w1, e, n)))

\* cron calls resetCounters (jobs/index.js 312-317)
JobStart ==
  /\ app.jobPc = "idle"
  /\ ApplyWorld([World EXCEPT !.a.jobPc = "ids", !.a.idsCalls = @ + 1])

\* getAllTenantIds returns the tenants with a row, in some order, or fails;
\* the entries are enqueued and the job awaits them (jobs/index.js 317-343)
JobGotIds(ok, ids) ==
  /\ app.jobPc = "ids"
  /\ \/ /\ ~ok /\ ids = <<>>
        /\ ApplyWorld(jobCatch([World EXCEPT !.a.idsFailed = TRUE]))
     \/ /\ ok
        /\ ids \in Perms({k \in Keys : app.row[k].present})
        /\ nextId + Len(ids) - 1 <= MaxOps
        /\ ApplyWorld(runMicrotasks(
             enqueueAll([World EXCEPT !.a.jobPc = "waiting",
                                      !.a.tenantIds = ids,
                                      !.a.resetExecuted = FALSE,
                                      !.a.resetCount = 0,
                                      !.a.pendAtJob = UnfinishedIncs(World)],
                        ids, 1)))

AppNext ==
  \/ \E k \in Keys \cup {NullKey} : GetCounter(k)
  \/ \E e \in Ids, ok \in BOOLEAN : ReadDone(e, ok)
  \/ \E e \in Ids, ok \in BOOLEAN : ExistsDone(e, ok)
  \/ \E e \in Ids, ok \in BOOLEAN : WriteDone(e, ok)
  \/ \E e \in Ids, ok \in BOOLEAN : ResetDone(e, ok)
  \/ JobStart
  \/ \E ok \in BOOLEAN, ids \in UNION {Perms(S) : S \in SUBSET Keys} : JobGotIds(ok, ids)

AppSpec == AppInit /\ [][AppNext]_vars

\* GET /counter alone, over every kind of stored row, the job not scheduled.
RouteStart(rows) == AppStart(rows) @@ [badRequest |-> FALSE]

RouteInit ==
  /\ QueueInit
  /\ fmt = FmtIdle
  /\ app \in {RouteStart([k \in Keys |-> IF k = 1 THEN r ELSE Row(1)]) : r \in RouteRows}

RouteNext ==
  \/ \E k \in Keys \cup {NullKey} : GetCounter(k)
  \/ \E e \in Ids, ok \in BOOLEAN : ReadDone(e, ok)
  \/ \E e \in Ids, ok \in BOOLEAN : ExistsDone(e, ok)
  \/ \E e \in Ids, ok \in BOOLEAN : WriteDone(e, ok)

RouteSpec == RouteInit /\ [][RouteNext]_vars

\* GET /counter and PATCH /counter/:id together, the job not scheduled.
PatchStart(rows) ==
  AppStart(rows) @@
    [nextPatch |-> 1,                            \* PATCH requests so far
     patchPc |-> [p \in Patches |-> "-"],        \* where request p is suspended
     patchId |-> [p \in Patches |-> NoKey],      \* req.params.id
     patchBody |-> [p \in Patches |-> [fields |-> "none", value |-> 0]],
     patchRes |-> [p \in Patches |-> "pending"], \* the response of request p
     patchedInside |-> {}]     \* increments whose counter was set between their read and write

PatchInit ==
  /\ QueueInit
  /\ fmt = FmtIdle
  /\ app \in {PatchStart([k \in Keys |-> IF k = 1 THEN r ELSE Row(1)]) : r \in {Row(1), NoRow}}

\* PATCH /counter/:id with the given body (routes/counter.js 191-211)
PatchCounter(id, body) ==
  /\ app.nextPatch <= MaxPatches
  /\ ApplyWorld(patchStart(World, app.nextPatch, id, body))

\* updateById: getById returns (services/counter.js 138-141)
PatchGetByIdDone(p, ok) ==
  /\ app.patchPc[p] = "getById"
  /\ ApplyWorld(updateByIdGot(World, p, ok))

\* updateById: the update returns; the response is sent
\* (services/counter.js 149-164, routes/counter.js 211-221)
PatchUpdateDone(p, ok) ==
  /\ app.patchPc[p] = "update"
  /\ ApplyWorld(updateByIdDone(World, p, ok))

PatchNext ==
  \/ \E k \in Keys \cup {NullKey} : GetCounter(k)
  \/ \E e \in Ids, ok \in BOOLEAN : ReadDone(e, ok)
  \/ \E e \in Ids, ok \in BOOLEAN : ExistsDone(e, ok)
  \/ \E e \in Ids, ok \in BOOLEAN : WriteDone(e, ok)
  \/ \E id \in Keys, body \in PatchBodies : PatchCounter(id, body)
  \/ \E p \in Patches, ok \in BOOLEAN : PatchGetByIdDone(p, ok)
  \/ \E p \in Patches, ok \in BOOLEAN : PatchUpdateDone(p, ok)

PatchSpec == PatchInit /\ [][PatchNext]_vars

\* The event loop runs every queued continuation: a worker whose awaited
\* operation has settled is eventually resumed.  Nothing makes a caller
\* enqueue or an operation finish.
FairSpec ==
  Init /\ [][NextLive]_vars /\ \A e \in Ids : WF_vars(WorkerResume(e))

\* ------------------------------------------------------------ vocabulary
Submitted(e) == key[e] # NoKey
Started(e) == opState[e] \in {"running", "finished"}
Settled(e) == promise[e] # Pending
\* the processQueue invocations of key k that are alive (each awaits one entry)
WorkersOf(k) == {e \in awaiting : key[e] = k}
\* the operations of key k that were invoked and have not returned or thrown
Running(k) == {e \in Ids : key[e] = k /\ opState[e] = "running"}
Backlog(k) == IF k \in DOMAIN queues THEN queues[k] ELSE <<>>
Position(e) == CHOOSE i \in 1..Len(startLog[key[e]]) : startLog[key[e]][i] = e
FirstOfKey(e) == Submitted(e) /\ \A a \in 1..(e - 1) : key[a] # key[e]

\* The worker's local `queue` and this.queues.get(tenantId) are one array:
\* an active key is always in the Map.
AliasSound == \A e \in awaiting : key[e] \in DOMAIN queues

\* ------------------------------------------------------------------ C1
\* C1: for every key at most one operation is in flight and at most one
\* processQueue worker is active, in every reachable state.
C1_OneWorkerPerKey ==
  \A k \in Keys :
    /\ Cardinality(Running(k)) <= 1
    /\ Cardinality(WorkersOf(k)) <= 1
    /\ (WorkersOf(k) # {} => k \in processing)

\* a burst: one operation of k in flight, two more entries waiting behind it
C1_Witness ==
  \E k \in Keys : Cardinality(Running(k)) = 1 /\ Len(Backlog(k)) >= 2

\* ------------------------------------------------------------------ C2
\* C2: per key, operations are started in the order of their enqueue calls:
\* if A was enqueued before B on the same key and B has been started, A was
\* started earlier.
C2_FifoStart ==
  \A a, b \in Ids :
    (a < b /\ Submitted(a) /\ key[a] = key[b] /\ Started(b)) =>
      /\ Started(a)
      /\ \E i, j \in 1..Len(startLog[key[a]]) :
           i < j /\ startLog[key[a]][i] = a /\ startLog[key[a]][j] = b

\* three entries of one key started, the third after waiting behind two
C2_Witness ==
  \E k \in Keys : Len(startLog[k]) >= 3

\* ------------------------------------------------------------------ C3
\* C3: per key, promises are settled in submission order: when B's operation
\* is started (and so when B's promise is settled), the promise of every
\* earlier entry A of the same key is already settled.
C3_SettleBeforeNextStart ==
  \A a, b \in Ids :
    (a < b /\ Submitted(a) /\ key[a] = key[b] /\ (Started(b) \/ Settled(b))) =>
      Settled(a)

C3_Witness ==
  \E a, b \in Ids :
    a < b /\ Submitted(a) /\ key[a] = key[b] /\ Settled(a) /\ Settled(b)

\* ------------------------------------------------------------------ C4
\* C4: an entry enqueued for a key with no active worker is started in the
\* enqueue call itself, whatever the other keys are doing.
C4_IdleKeyStartsAtOnce ==
  [][\A k \in Keys :
       (nextId' = nextId + 1 /\ key'[nextId] = k /\ k \notin processing) =>
         (opState'[nextId] = "running" /\ nextId \in awaiting')]_vars

\* operations of two keys in flight together, each started by its enqueue
\* call, the second while the first was in flight
C4_Witness ==
  \E a, b \in Ids :
    /\ a < b /\ FirstOfKey(a) /\ FirstOfKey(b)
    /\ opState[a] = "running" /\ opState[b] = "running"

\* ------------------------------------------------------------------ C5
\* C5: every promise is settled exactly once: resolve and reject are called
\* at most once in total, never both, never before the operation has
\* finished, and exactly once when the worker has gone past the entry.
C5_SettledOnce ==
  \A e \in Ids :
    /\ resolveCalls[e] + rejectCalls[e] <= 1
    /\ (resolveCalls[e] + rejectCalls[e] >= 1 => opState[e] = "finished")
    /\ (Settled(e) <=> resolveCalls[e] + rejectCalls[e] = 1)
    /\ ((opState[e] = "finished" /\ e \notin awaiting) =>
          resolveCalls[e] + rejectCalls[e] = 1)

C5_Witness ==
  \E a, b \in Ids : resolveCalls[a] = 1 /\ rejectCalls[b] = 1

\* ------------------------------------------------------------------ C6
\* C6: a settled promise carries the outcome of its own operation, unchanged:
\* fulfilled with the returned value, rejected with the thrown error.
C6_OwnOutcome ==
  \A e \in Ids :
    Settled(e) =>
      /\ (opOutcome[e][1] = "return" => promise[e] = <<"fulfilled", opOutcome[e][2]>>)
      /\ (opOutcome[e][1] = "throw" => promise[e] = <<"rejected", opOutcome[e][2]>>)
      /\ opOutcome[e][1] \in {"return", "throw"}

\* null, undefined and an error delivered to three entries
C6_Witness ==
  \E a, b, c \in Ids :
    /\ promise[a] = <<"fulfilled", "null">>
    /\ promise[b] = <<"fulfilled", "undefined">>
    /\ promise[c] = <<"rejected", "Error">>

\* ------------------------------------------------------------------ C7
\* C7: when a worker resumes from an operation that threw, it rejects that
\* entry only, starts the next entry of the backlog in the same step and
\* stays active, and leaves every other key untouched; entries waiting behind
\* a rejected entry always have an active worker.
C7_FailureStep ==
  \A e \in Ids :
    (e \in awaiting /\ e \notin awaiting' /\ opOutcome[e][1] = "throw") =>
      LET k == key[e] IN
      /\ promise'[e] = <<"rejected", opOutcome[e][2]>>
      /\ \A f \in Ids \ {e} : promise'[f] = promise[f]
      /\ (Backlog(k) # <<>> =>
            /\ opState'[Head(Backlog(k))] = "running"
            /\ Head(Backlog(k)) \in awaiting'
            /\ k \in processing')
      /\ \A j \in Keys \ {k} :
            /\ (j \in DOMAIN queues') = (j \in DOMAIN queues)
            /\ (j \in DOMAIN queues => queues'[j] = queues[j])
            /\ (j \in processing') = (j \in processing)
            /\ \A f \in Ids : key[f] = j =>
                  (opState'[f] = opState[f] /\ (f \in awaiting') = (f \in awaiting))

C7_FailureIsolated ==
  /\ [][C7_FailureStep]_vars
  /\ [](\A e, f \in Ids :
          (e < f /\ key[e] = key[f] /\ promise[e][1] = "rejected"
             /\ opState[f] = "queued") => WorkersOf(key[f]) # {})

\* second of three fails; the third and an entry of another key are fulfilled
C7_Witness ==
  \E e, f, g \in Ids :
    /\ e < f /\ key[e] = key[f] /\ Submitted(g) /\ key[g] # key[e]
    /\ promise[e][1] = "rejected"
    /\ promise[f][1] = "fulfilled"
    /\ promise[g][1] = "fulfilled"

\* ------------------------------------------------------------------ C8
\* C8: a submitted entry is eventually started if every operation ahead of it
\* on its key completes, and its promise is eventually settled if its own
\* operation completes too; this includes entries enqueued while the worker
\* of the key is about to resume from its last operation.
C8_EventuallySettled ==
  \A e \in 1..MaxLiveOps :
    /\ (\A a \in 1..(e - 1) : []<>~(key[a] = key[e] /\ opState[a] = "running"))
         => (Submitted(e) ~> Started(e))
    /\ (\A a \in 1..e : []<>~(key[a] = key[e] /\ opState[a] = "running"))
         => (Submitted(e) ~> Settled(e))

\* an entry enqueued after the last operation finished and before the worker
\* resumed has been settled
C8_Witness ==
  \E e \in gapEnq : Settled(e)

\* ------------------------------------------------------------------ C9
\* C9: a key is in the queues Map iff its backlog is non-empty or a worker is
\* awaiting one of its operations; it stays in the Map while an operation of
\* the key is executing even when the backlog is empty.
C9_RegistryIff ==
  \A k \in Keys :
    /\ (k \in DOMAIN queues) <=> (Backlog(k) # <<>> \/ WorkersOf(k) # {})
    /\ (Running(k) # {} => k \in DOMAIN queues)

C9_Witness ==
  \E k \in Keys : k \in DOMAIN queues /\ queues[k] = <<>> /\ Running(k) # {}

\* ------------------------------------------------------------------ C10
\* C10: when every submitted operation has completed and no worker is left,
\* the queues Map and the processing Set are both empty.
C10_NoIdleState ==
  ((\A e \in Ids : Submitted(e) => opState[e] = "finished") /\ awaiting = {}) =>
    (DOMAIN queues = {} /\ processing = {})

\* every key was used, everything submitted has completed, workers gone
C10_Witness ==
  /\ \A k \in Keys : \E e \in Ids : key[e] = k
  /\ \A e \in Ids : Submitted(e) => opState[e] = "finished"
  /\ awaiting = {}

\* ------------------------------------------------------------------ C11
\* C11: an enqueue on a key that has drained and left the Map acts as a first
\* submission: the Map entry is created again, a worker is started and the
\* operation is invoked in that call; operations of the key are started in
\* submission order across the generations, and the entry gets its own result.
C11_ReuseStep ==
  \A k \in Keys :
    (nextId' = nextId + 1 /\ key'[nextId] = k /\ k \notin DOMAIN queues
       /\ startLog[k] # <<>>) =>
      /\ k \notin processing
      /\ k \in DOMAIN queues' /\ queues'[k] = <<>>
      /\ k \in processing'
      /\ opState'[nextId] = "running" /\ nextId \in awaiting'
      /\ startLog'[k] = Append(startLog[k], nextId)

C11_ReuseLikeFirst ==
  /\ [][C11_ReuseStep]_vars
  /\ [](\A k \in Keys : \A i, j \in 1..Len(startLog[k]) :
          i < j => startLog[k][i] < startLog[k][j])
  /\ [](\A e \in reused : promise[e][1] = "fulfilled" =>
          opOutcome[e] = <<"return", promise[e][2]>>)

\* a second generation of a key has run and delivered its result
C11_Witness ==
  \E e \in reused : promise[e][1] = "fulfilled" /\ Len(startLog[key[e]]) >= 2

\* ------------------------------------------------------------------ C12
\* C12 (as stated): an enqueue without a key (null, undefined) fails as an
\* invalid submission and queues nothing.
C12_MissingKeyRefused ==
  \A e \in Ids :
    key[e] \in MissingKeys => (opState[e] = "new" /\ promise[e][1] = "rejected")

\* C12 (amended): enqueue refuses no key: with a missing key too the entry is
\* queued under that key and its operation is invoked like any other, and for
\* every key the promise is rejected only when the operation itself threw.
C12_SubmissionStep ==
  \A k \in {1} \cup MissingKeys :
    (nextId' = nextId + 1 /\ key'[nextId] = k) =>
      /\ promise'[nextId] = Pending
      /\ \/ (opState'[nextId] = "running" /\ nextId \in awaiting')
         \/ (opState'[nextId] = "queued" /\ k \in processing
               /\ queues'[k][Len(queues'[k])] = nextId)

C12_NoSubmissionError ==
  /\ [][C12_SubmissionStep]_vars
  /\ [](\A e \in Ids : promise[e][1] = "rejected" => opOutcome[e][1] = "throw")

\* operations enqueued under null and under undefined have run and delivered
C12_Witness ==
  \E a, b \in Ids :
    /\ key[a] = NullKey /\ key[b] = UndefinedKey
    /\ promise[a][1] = "fulfilled" /\ promise[b][1] = "rejected"

\* ------------------------------------------------------------------ C20
\* C20: no key ever has a non-empty backlog without an active worker, and a
\* worker leaves (its key leaves the processing Set) only in a step that finds
\* the backlog empty and removes the key from the Map as well.
C20_ExitStep ==
  \A k \in Keys :
    (k \in processing /\ k \notin processing') =>
      (Backlog(k) = <<>> /\ k \notin DOMAIN queues' /\ WorkersOf(k)' = {})

C20_NoOrphanBacklog ==
  /\ [](\A k \in Keys :
          Backlog(k) # <<>> => (k \in processing /\ WorkersOf(k) # {}))
  /\ [][C20_ExitStep]_vars

\* an entry enqueued just before the worker resumed from its last operation
\* is waiting, and the worker is still there
C20_Witness ==
  \E e \in gapEnq : opState[e] = "queued" /\ WorkersOf(key[e]) # {}

\* ------------------------------------------------------------------ C19
\* C19: formatOrderNumber throws Error('Input must be a positive integer')
\* for every input that is not a positive integer, and for a positive integer
\* n returns 'ORD-' YYMM '-' and n in decimal, padded with zeros on the left
\* to 6 digits and never cut when n has more than 6 digits.
RECURSIVE DigitsValue(_)
DigitsValue(str) ==
  IF str = <<>> THEN 0
  ELSE 10 * DigitsValue(SubSeq(str, 1, Len(str) - 1))
         + ((CHOOSE i \in 1..10 : DigitChars[i] = str[Len(str)]) - 1)

IsPositiveInteger(x) ==
  /\ x.type = "number"
  /\ x.kind = "finite"
  /\ x.num > 0
  /\ x.den > 0
  /\ (x.num \div x.den) * x.den = x.num

C19_FormatOrderNumber ==
  fmt.pc = "done" =>
    LET x == fmt.input
        r == fmt.result
    IN IF ~IsPositiveInteger(x)
         THEN r = <<"throw", FmtMessage>>
         ELSE LET n == x.num \div x.den
                  str == r[2]
                  digits == SubSeq(str, 10, Len(str))
              IN /\ r[1] = "return"
                 /\ Len(str) >= 15
                 /\ SubSeq(str, 1, 4) = <<"O", "R", "D", "-">>
                 /\ DigitsValue(SubSeq(str, 5, 6)) = fmt.now.year % 100
                 /\ DigitsValue(SubSeq(str, 7, 8)) = fmt.now.monthIndex + 1
                 /\ str[9] = "-"
                 /\ \A i \in 5..8 \cup 10..Len(str) : \E c \in 1..10 : DigitChars[c] = str[i]
                 /\ DigitsValue(digits) = n
                 /\ (n <= 999999 => Len(digits) = 6)
                 /\ (n > 999999 => digits[1] # "0")

\* a seven-digit number has been formatted in full
C19_Witness ==
  /\ fmt.pc = "done"
  /\ fmt.input = Num(1234567, 1)
  /\ fmt.result[1] = "return"
  /\ Len(fmt.result[2]) = 16

\* ---------------------------------------------- vocabulary, application
JobEntrySet == {app.jobEntries[i] : i \in 1..Len(app.jobEntries)}
KnownTenants == {app.tenantIds[i] : i \in 1..Len(app.tenantIds)}
\* the increments of tenant k whose operation has returned, in request order
Succeeded(k) ==
  {e \in Ids : app.kind[e] = "inc" /\ key[e] = k /\ opOutcome[e][1] = "return"}
\* the increments of tenant k between their read and their return
MidIncrement(k) ==
  {e \in Ids : app.kind[e] = "inc" /\ key[e] = k /\ app.opPc[e] \in {"exists", "write"}}
ResetFailed == \E e \in Ids : app.kind[e] = "reset" /\ opOutcome[e][1] = "throw"

\* ------------------------------------------------------------------ C13
\* C13: resetAllCounters is not called before every increment that was in
\* flight or queued, for any tenant, when the job enqueued its entries has
\* completed.
C13_ResetWaitsBehind ==
  app.resetOverlap \cap app.pendAtJob = {}

\* ------------------------------------------------------------------ C14
\* C14: while resetAllCounters is executing no increment is started for a
\* tenant known to the job.
C14_NoIncrementDuringReset ==
  app.startedInReset = {}

\* ------------------------------------------------------------------ C15
\* C15: in a run of resetCounters with at least one tenant resetAllCounters
\* is called exactly once: never twice, whatever the order in which the
\* entries are started and also when the call fails, and once as soon as one
\* of the job's entries has been started.
C15_ResetOnce ==
  /\ app.resetCalls <= 1
  /\ ((\E e \in JobEntrySet : Started(e)) => app.resetCalls = 1)
  /\ ((app.jobPc = "done" /\ app.tenantIds # <<>>) => app.resetCalls = 1)

\* the call failed, the entries of two tenants have run, still one call
C15_Witness ==
  /\ Len(app.jobEntries) >= 2
  /\ \A e \in JobEntrySet : Settled(e)
  /\ ResetFailed
  /\ app.resetCalls = 1

\* ------------------------------------------------------------------ C16
\* C16: resetCounters calls getAllTenantIds once and submits one entry per
\* tenant id returned, under that tenant id.
C16_OneEntryPerTenant ==
  /\ app.idsCalls = (IF app.jobPc = "idle" THEN 0 ELSE 1)
  /\ Len(app.jobEntries) = Len(app.tenantIds)
  /\ \A i \in 1..Len(app.jobEntries) :
       /\ key[app.jobEntries[i]] = app.tenantIds[i]
       /\ app.kind[app.jobEntries[i]] = "reset"
  /\ \A k \in Keys :
       Cardinality({e \in Ids : app.kind[e] = "reset" /\ key[e] = k})
         = (IF k \in KnownTenants THEN 1 ELSE 0)

C16_Witness ==
  /\ Len(app.tenantIds) = 2
  /\ app.jobPc = "waiting"

\* ------------------------------------------------------------------ C17
\* C17: resetCounters never rejects; when getAllTenantIds or resetAllCounters
\* failed, the finished job has logged one error and no success message.
C17_JobNeverRejects ==
  /\ app.jobResult # "rejected"
  /\ app.errLogs + app.okLogs <= 1
  /\ (app.jobPc = "done" =>
        /\ app.jobResult = "resolved"
        /\ app.errLogs + app.okLogs = 1
        /\ ((app.idsFailed \/ ResetFailed) => (app.errLogs = 1 /\ app.okLogs = 0)))

\* resetAllCounters failed in a job over two tenants and the job has returned
C17_Witness ==
  /\ app.jobPc = "done"
  /\ ResetFailed
  /\ Len(app.tenantIds) = 2

\* ------------------------------------------------------------------ C18
\* C18: as long as no reset has run, the increments of a tenant are not lost:
\* between the read and the write of an increment the stored value is the
\* value it read, the stored value is the initial value plus the number of
\* successful requests, and these returned the consecutive order numbers.
C18_NoLostIncrement ==
  app.resetCalls = 0 =>
    \A k \in Keys :
      /\ Cardinality(MidIncrement(k)) <= 1
      /\ \A e \in MidIncrement(k) : app.readVal[e] = app.row[k].value
      /\ app.row[k].value = app.row0[k].value + Cardinality(Succeeded(k))
      /\ \A e \in Succeeded(k) :
           LET str == opOutcome[e][2]
           IN DigitsValue(SubSeq(str, 10, Len(str)))
                = app.row0[k].value + Cardinality({a \in Succeeded(k) : a <= e})

\* three requests of one tenant have succeeded
C18_Witness ==
  \E k \in Keys :
    /\ app.resetCalls = 0
    /\ Cardinality(Succeeded(k)) = 3
    /\ app.row[k].value = app.row0[k].value + 3

\* ------------------------------------------------------------------ C21
\* C21: a queued entry is never dropped, skipped or aborted: the entries with
\* a queued operation are exactly those of the backlogs, each once and with a
\* pending promise, and an entry leaves its backlog only as its head, started
\* by the key's worker.  While an operation has not completed, every later
\* entry of its key stays queued and pending and the key stays in the Map and
\* in the processing Set; entries of the other keys are still started, and
\* settled when the operations of their own key complete.
C21_BacklogStep ==
  \A e \in Ids :
    opState[e] = "queued" =>
      LET k == key[e] IN
      \/ /\ opState'[e] = "queued"
         /\ k \in DOMAIN queues'
         /\ \E i \in 1..Len(queues'[k]) : queues'[k][i] = e
      \/ /\ opState'[e] = "running"
         /\ Head(Backlog(k)) = e
         /\ e \in awaiting'
         /\ startLog'[k] = Append(startLog[k], e)
         /\ k \in processing'

C21_Queued ==
  /\ \A e \in Ids :
       opState[e] = "queued" <=>
         (Submitted(e) /\ Cardinality({i \in 1..Len(Backlog(key[e])) : Backlog(key[e])[i] = e}) = 1)
  /\ \A e \in Ids : opState[e] = "queued" => promise[e] = Pending
  /\ \A k \in Keys : \A i \in 1..Len(Backlog(k)) : key[Backlog(k)[i]] = k

C21_BehindRunning ==
  \A a, b \in Ids :
    (a < b /\ opState[a] = "running" /\ key[b] = key[a]) =>
      /\ opState[b] = "queued"
      /\ promise[b] = Pending
      /\ key[a] \in DOMAIN queues
      /\ key[a] \in processing
      /\ a \in awaiting

C21_NeverDropped ==
  /\ [][C21_BacklogStep]_vars
  /\ [](C21_Queued /\ C21_BehindRunning)
  /\ \A e \in 2..MaxStuckOps :
       /\ (Submitted(e) /\ key[e] = key[1]) ~> [](opState[e] = "queued" /\ promise[e] = Pending)
       /\ (\A a \in 2..(e - 1) : []<>~(key[a] = key[e] /\ opState[a] = "running"))
            => ((Submitted(e) /\ key[e] # key[1]) ~> Started(e))
       /\ (\A a \in 2..e : []<>~(key[a] = key[e] /\ opState[a] = "running"))
            => ((Submitted(e) /\ key[e] # key[1]) ~> Settled(e))

\* the first operation has not returned, an entry waits behind it, and an
\* entry of another key, enqueued last, has been settled
C21_Witness ==
  \E b, c \in Ids :
    /\ opState[1] = "running"
    /\ key[b] = key[1] /\ opState[b] = "queued"
    /\ b < c /\ Submitted(c) /\ key[c] # key[1] /\ Settled(c)

\* ------------------------------------------------------------------ C22
\* C22: an enqueue on a key whose worker is active only appends the entry to
\* the backlog of that key: no worker is started and the operation is not
\* invoked.  An enqueue on a key with no active worker puts the key in the
\* processing Set and starts exactly one worker, which invokes the operation.
\* In both cases the backlog, the processing flag, the worker and the
\* operations of every other key are unchanged, and no promise is settled.
C22_EnqueueStep ==
  \A k \in Keys :
    (nextId' = nextId + 1 /\ key'[nextId] = k) =>
      LET e == nextId IN
      /\ k \in processing =>
            /\ queues'[k] = Append(Backlog(k), e)
            /\ opState'[e] = "queued"
            /\ awaiting' = awaiting
            /\ processing' = processing
            /\ startLog' = startLog
            /\ \A f \in Ids \ {e} : opState'[f] = opState[f]
      /\ k \notin processing =>
            /\ processing' = processing \cup {k}
            /\ awaiting' = awaiting \cup {e}
            /\ WorkersOf(k)' = {e}
            /\ opState'[e] = "running"
            /\ k \in DOMAIN queues' /\ queues'[k] = <<>>
            /\ startLog'[k] = Append(startLog[k], e)
      /\ \A j \in Keys \ {k} :
            /\ (j \in DOMAIN queues') = (j \in DOMAIN queues)
            /\ Backlog(j)' = Backlog(j)
            /\ (j \in processing') = (j \in processing)
            /\ WorkersOf(j)' = WorkersOf(j)
            /\ startLog'[j] = startLog[j]
            /\ \A f \in Ids : key[f] = j => opState'[f] = opState[f]
      /\ promise' = promise
      /\ resolveCalls' = resolveCalls /\ rejectCalls' = rejectCalls

C22_EnqueueFrame == [][C22_EnqueueStep]_vars

\* an entry was appended behind a running operation of its key while an
\* operation of another key, started by its own enqueue call, was in flight
C22_Witness ==
  \E a, b, c \in Ids :
    /\ a < c /\ c < b
    /\ key[a] = key[b] /\ Submitted(c) /\ key[c] # key[a]
    /\ opState[a] = "running" /\ opState[b] = "queued" /\ opState[c] = "running"
    /\ Backlog(key[a]) = <<b>>

\* ------------------------------------------------------------------ C23
\* C23: an enqueue made by a running operation on its own key starts no
\* second worker and does not invoke the nested operation; the nested entry
\* is not started before the submitting operation has finished.  When the
\* submitting operation awaits the nested entry, it never completes, and the
\* nested entry and every later entry of the key are never started.
C23_NestedStep ==
  \A a \in Ids :
    (nextId' = nextId + 1 /\ app'.parent[nextId] = a /\ key'[nextId] = key[a]) =>
      /\ WorkersOf(key[a])' = {a}
      /\ opState'[nextId] = "queued"
      /\ opState'[a] = "running"

C23_SelfWait ==
  \A a, b \in Ids :
    (app.parent[b] = a /\ key[b] = key[a]) =>
      /\ Started(b) => opState[a] = "finished"
      /\ app.waitsFor[a] = b =>
            /\ opState[a] = "running"
            /\ opState[b] = "queued" /\ promise[b] = Pending
            /\ \A c \in Ids :
                  (c > a /\ key[c] = key[a]) => (opState[c] = "queued" /\ promise[c] = Pending)
            /\ key[a] \in processing

C23_NoReentry ==
  /\ [][C23_NestedStep]_vars
  /\ []C23_SelfWait

\* an operation awaits an entry it enqueued on its own key, and an entry an
\* outside caller enqueued on that key afterwards waits behind both
C23_Witness ==
  \E a, b, c \in Ids :
    /\ app.waitsFor[a] = b /\ app.parent[b] = a /\ key[b] = key[a]
    /\ b < c /\ key[c] = key[a] /\ app.parent[c] = 0
    /\ opState[c] = "queued"

\* ------------------------------------------------------------------ C24
\* C24: an enqueue call on a key with no active worker invokes the operation
\* inside the call: in that one step the entry becomes running, nothing else
\* runs (no other operation is started, no promise is settled) and the entries
\* of later calls do not exist yet.  So an entry enqueued on an idle key is
\* started in every state that follows its call, and of two calls on idle
\* keys the earlier one has its operation invoked first.
C24_SyncStep ==
  \A k \in Keys :
    (nextId' = nextId + 1 /\ key'[nextId] = k /\ k \notin processing) =>
      LET e == nextId IN
      /\ opState[e] = "new" /\ opState'[e] = "running"
      /\ startLog'[k] = Append(startLog[k], e)
      /\ \A f \in Ids \ {e} : opState'[f] = opState[f]
      /\ \A f \in Ids : f > e => (opState'[f] = "new" /\ key'[f] = NoKey)
      /\ promise' = promise

C24_StartedOnCall ==
  \A a \in Ids :
    (Submitted(a) /\ (FirstOfKey(a) \/ a \in reused)) => Started(a)

C24_SyncInvocation ==
  /\ [][C24_SyncStep]_vars
  /\ []C24_StartedOnCall

\* two calls in a row on different idle keys: both operations are running,
\* nothing has finished, and a third call has not been made
C24_Witness ==
  \E a \in Ids :
    /\ a + 1 \in Ids /\ nextId = a + 2
    /\ Submitted(a + 1) /\ key[a] # key[a + 1]
    /\ startLog[key[a]] = <<a>> /\ startLog[key[a + 1]] = <<a + 1>>
    /\ opState[a] = "running" /\ opState[a + 1] = "running"

\* ------------------------------------------------------------------ C25
\* C25: the step that settles the last entry of a key (empty backlog) also
\* removes the key from the processing Set and from the Map; whenever every
\* entry submitted for a key is settled the key is in neither, and an enqueue
\* made then starts a new worker, which invokes the operation in that call.
C25_LastSettleStep ==
  \A e \in Ids :
    (promise[e] = Pending /\ promise'[e] # Pending /\ Backlog(key[e]) = <<>>) =>
      /\ key[e] \in processing /\ key[e] \in DOMAIN queues
      /\ key[e] \notin processing'
      /\ key[e] \notin DOMAIN queues'
      /\ WorkersOf(key[e])' = {}

C25_FreshWorkerStep ==
  \A k \in Keys :
    (/\ nextId' = nextId + 1 /\ key'[nextId] = k
     /\ \E e \in Ids : key[e] = k
     /\ \A e \in Ids : key[e] = k => Settled(e)) =>
      /\ k \notin processing /\ k \notin DOMAIN queues
      /\ k \in processing'
      /\ WorkersOf(k)' = {nextId}
      /\ opState'[nextId] = "running"

C25_ObservedAbsent ==
  \A k \in Keys :
    (\A e \in Ids : key[e] = k => Settled(e)) =>
      (k \notin processing /\ k \notin DOMAIN queues)

C25_DeregisteredOnSettle ==
  /\ [][C25_LastSettleStep /\ C25_FreshWorkerStep]_vars
  /\ []C25_ObservedAbsent

\* the caller saw the result of the only entry of a key and submitted again:
\* the second operation is running under a new worker
C25_Witness ==
  \E a, b \in Ids :
    /\ a < b /\ key[a] = key[b] /\ Submitted(a)
    /\ promise[a][1] = "fulfilled"
    /\ b \in reused /\ opState[b] = "running"
    /\ startLog[key[a]] = <<a, b>>

\* ------------------------------------------------------------------ C26
\* C26: the 'Successfully reset' message is logged only when resetAllCounters
\* has returned and every entry the job submitted is settled (fulfilled); the
\* count in the message is the value resetAllCounters returned, which one of
\* the entries delivered, and it is 0 when the tenant list is empty.
C26_SuccessAfterAll ==
  app.okLogs >= 1 =>
    /\ app.jobPc = "done"
    /\ ~app.resetRunning
    /\ \A e \in Ids : app.opPc[e] # "reset"
    /\ \A e \in JobEntrySet : promise[e][1] = "fulfilled"
    /\ app.loggedCount = app.resetCount
    /\ IF app.tenantIds = <<>>
         THEN app.loggedCount = 0 /\ app.resetCalls = 0
         ELSE /\ app.resetCalls = 1
              /\ \E e \in JobEntrySet : promise[e] = <<"fulfilled", app.loggedCount>>
              /\ app.loggedCount = Cardinality({k \in Keys : app.row[k].present})

\* a job over two tenants has logged its success; one entry delivered 0
\* because it returned while resetAllCounters was running
C26_Witness ==
  /\ app.okLogs = 1
  /\ app.loggedCount = 2
  /\ \E e \in JobEntrySet : promise[e] = <<"fulfilled", 0>>

\* ------------------------------------------------------------------ C27
\* C27: when getAllTenantIds returns an empty list, resetCounters enqueues
\* nothing and never calls resetAllCounters; it goes on to its end without
\* waiting (Promise.all of no promise is fulfilled), where it has logged the
\* success message (with count 0) and no error.  The start message is logged
\* in the step that calls getAllTenantIds.
C27_EmptyList ==
  (app.jobPc \in {"waiting", "done"} /\ ~app.idsFailed /\ app.tenantIds = <<>>) =>
    /\ app.idsCalls = 1
    /\ app.jobEntries = <<>>
    /\ \A e \in Ids : app.kind[e] # "reset"
    /\ app.resetCalls = 0 /\ ~app.resetRunning
    /\ app.errLogs = 0
    /\ app.jobResult # "rejected"
    /\ app.jobPc = "done"
    /\ (app.jobPc = "done" =>
          (app.okLogs = 1 /\ app.loggedCount = 0 /\ app.jobResult = "resolved"))

\* the job has ended over an empty table
C27_Witness ==
  /\ app.jobPc = "done"
  /\ ~app.idsFailed
  /\ app.tenantIds = <<>>
  /\ app.okLogs = 1
  /\ \A k \in Keys : ~app.row[k].present

\* ---------------------------------------------------- vocabulary, route
UpdateFailed == "Failed to update counter by tenantId"
\* the number an order number string ends with
OrderNumberOf(str) == DigitsValue(SubSeq(str, 10, Len(str)))
\* the step in which the operation of increment e ends after its update
WriteEnds(e) == app.opPc[e] = "write" /\ app'.opPc[e] = "done"

\* ------------------------------------------------------------------ C28
\* C28: an increment returns an order number only in the step in which its
\* update succeeded, and that number is the value stored by that step; when
\* updateByTenantId fails the operation throws, nothing is stored and the
\* request gets the error.  After a successful update the operation cannot
\* throw (formatOrderNumber never refuses its argument there), so the stored
\* value changes exactly in the steps that issue an order number, and has
\* moved by the number of order numbers issued.
C28_WriteStep ==
  /\ \A e \in Ids :
       /\ (opOutcome[e] = NoOutcome /\ opOutcome'[e][1] = "return") => WriteEnds(e)
       /\ WriteEnds(e) =>
            \/ /\ opOutcome'[e][1] = "return"
               /\ app'.row[key[e]].value = app.readVal[e] + 1
               /\ OrderNumberOf(opOutcome'[e][2]) = app'.row[key[e]].value
               /\ \A k \in Keys \ {key[e]} : app'.row[k] = app.row[k]
            \/ /\ opOutcome'[e] = <<"throw", UpdateFailed>>
               /\ app'.row = app.row
  /\ app'.row # app.row =>
       Cardinality({e \in Ids : WriteEnds(e) /\ opOutcome'[e][1] = "return"}) = 1

C28_Issued ==
  /\ \A e \in Ids :
       /\ opOutcome[e][1] = "throw" => opOutcome[e][2] # FmtMessage
       /\ promise[e][1] = "fulfilled" =>
            (opOutcome[e][1] = "return" /\ promise[e][2] = opOutcome[e][2])
       /\ (promise[e][1] = "rejected" /\ opOutcome[e][2] = UpdateFailed) =>
            promise[e][2] = UpdateFailed
  /\ \A k \in Keys :
       app.row[k].value = app.row0[k].value + Cardinality(Succeeded(k))

C28_OrderNumberIffPersisted ==
  /\ [][C28_WriteStep]_vars
  /\ []C28_Issued

\* one request of a tenant got its order number, the next one failed in
\* updateByTenantId and got the error
C28_Witness ==
  \E a, b \in Ids :
    /\ a < b /\ key[a] = key[b] /\ Submitted(a)
    /\ promise[a][1] = "fulfilled"
    /\ promise[b] = <<"rejected", UpdateFailed>>
    /\ app.row[key[a]].value = app.row0[key[a]].value + 1

\* ------------------------------------------------------------------ C29
\* C29: a request whose tenant has no counter, or a stored value that is
\* null, undefined, not an integer, negative or already 2147483647, fails
\* without a write: its operation throws when the read returns, the table is
\* unchanged, and no other request is touched.  Its worker resumes in the same
\* turn: only its promise is rejected, with that error, and the next request
\* of the tenant is started.  A request without a tenant id is answered with an
\* error and nothing is submitted to the queue.
RefusedRow(r) ==
  \/ ~r.present
  \/ r.form \in {"null", "undefined", "fraction", "NaN"}
  \/ (r.form = "integer" /\ (r.value < 0 \/ r.value >= 2147483647))

ValidationErrors ==
  {"Counter not found for this tenant", "Counter value is invalid",
   "Counter value must be an integer", "Counter value cannot be negative",
   "Counter has reached maximum value"}

C29_FailStep ==
  /\ \A e \in Ids :
       (app.opPc[e] = "read" /\ app'.opPc[e] # "read" /\ RefusedRow(app.row[key[e]])) =>
         LET k == key[e] IN
         /\ app'.opPc[e] = "done"
         /\ opOutcome'[e][1] = "throw"
         /\ opOutcome'[e][2] \in ValidationErrors \cup {"Failed to retrieve counter by tenantId"}
         /\ app'.row = app.row
         /\ promise'[e] = <<"rejected", opOutcome'[e][2]>>
         /\ \A f \in Ids \ {e} : promise'[f] = promise[f] /\ opOutcome'[f] = opOutcome[f]
         /\ \A f \in Ids : key[f] # k =>
               (opState'[f] = opState[f] /\ app'.opPc[f] = app.opPc[f])
         /\ Backlog(k) # <<>> =>
               /\ opState'[Head(Backlog(k))] = "running"
               /\ app'.opPc[Head(Backlog(k))] = "read"
               /\ k \in processing'
         /\ Backlog(k) = <<>> => k \notin processing'
  /\ (~app.badRequest /\ app'.badRequest) =>
       /\ queues' = queues /\ processing' = processing /\ awaiting' = awaiting
       /\ nextId' = nextId /\ key' = key /\ opState' = opState
       /\ promise' = promise /\ app'.row = app.row /\ app'.kind = app.kind

C29_NoWrite ==
  \A k \in Keys :
    /\ RefusedRow(app.row[k]) =>
          \A e \in Ids : key[e] = k => app.opPc[e] \notin {"exists", "write"}
    /\ RefusedRow(app.row0[k]) =>
          /\ app.row[k] = app.row0[k]
          /\ \A e \in Ids : (key[e] = k /\ Settled(e)) => promise[e][1] = "rejected"

C29_ValidationFailure ==
  /\ [][C29_FailStep]_vars
  /\ []C29_NoWrite

\* two requests of a tenant with a refused row were rejected one after the
\* other, a request of another tenant got its order number, and a request
\* without tenant id was answered
C29_Witness ==
  \E a, b, c \in Ids :
    /\ a < b /\ key[a] = key[b] /\ Submitted(a)
    /\ promise[a][1] = "rejected" /\ promise[a][2] \in ValidationErrors
    /\ promise[b][1] = "rejected" /\ promise[b][2] \in ValidationErrors
    /\ Submitted(c) /\ key[c] # key[a] /\ promise[c][1] = "fulfilled"
    /\ app.row[key[c]].value = app.row0[key[c]].value + 1
    /\ app.row[key[a]] = app.row0[key[a]]
    /\ app.badRequest

\* ------------------------------------------------------------------ C30
\* C30: a value written by GET /counter is the value read by the same
\* operation plus one, and lies in 1..2147483647: an increment goes past its
\* checks only with a value read in 0..2147483646, which is the value stored
\* until it writes, and a counter that holds 2147483647 is never written.
C30_WriteValueStep ==
  \A e \in Ids :
    (WriteEnds(e) /\ app'.row # app.row) =>
      LET k == key[e] IN
      /\ app'.row[k].value = app.readVal[e] + 1
      /\ app.readVal[e] = app.row[k].value
      /\ app'.row[k].value >= 1 /\ app'.row[k].value <= 2147483647
      /\ app.row[k].value # 2147483647
      /\ app'.row[k].form = "integer" /\ app'.row[k].present

C30_InRange ==
  /\ \A e \in Ids :
       app.opPc[e] \in {"exists", "write"} =>
         /\ app.readVal[e] >= 0 /\ app.readVal[e] <= 2147483646
         /\ app.row[key[e]] = Row(app.readVal[e])
  /\ \A k \in Keys :
       /\ app.row[k] # app.row0[k] =>
            (app.row[k].value >= 1 /\ app.row[k].value <= 2147483647)
       /\ app.row0[k] = Row(2147483647) => app.row[k] = app.row0[k]

C30_WrittenValue ==
  /\ [][C30_WriteValueStep]_vars
  /\ []C30_InRange

\* a counter that held 2147483646 was incremented to 2147483647, and the next
\* request of the tenant was refused
C30_Witness ==
  \E a, b \in Ids :
    /\ a < b /\ key[a] = key[b] /\ Submitted(a)
    /\ app.row0[key[a]] = Row(2147483646)
    /\ app.row[key[a]] = Row(2147483647)
    /\ promise[a][1] = "fulfilled"
    /\ promise[b] = <<"rejected", "Counter has reached maximum value">>

\* ------------------------------------------------------------------ C31
\* C31: the order number in the response of GET /counter is formatted from
\* the value that was stored when the operation read the counter (the value
\* before the increment), not from the incremented value.
C31_ReturnsOldValue ==
  \A e \in Ids :
    (app.kind[e] = "inc" /\ opOutcome[e][1] = "return") =>
      OrderNumberOf(opOutcome[e][2]) = app.readVal[e]

\* ------------------------------------------------------------------ C32
\* C32: every write to a tenant's counter value goes through the tenant's
\* queue: no PATCH /counter/:id update of the value takes effect between the
\* read and the write of a GET /counter increment of the same tenant, so no
\* increment overwrites a value written after its read.
C32_PatchOutside == app.patchedInside = {}

C32_NoOverwrite ==
  \A e \in Ids :
    (app.kind[e] = "inc" /\ opOutcome[e][1] = "return") => e \notin app.patchedInside

C32_WritesSerialized == C32_PatchOutside /\ C32_NoOverwrite

====
